---------------------------- MODULE Spec2Model ----------------------------
(***************************************************************************)
(* A model of google_daemon/accounts.py: the Accounts class that creates   *)
(* an account, grants it passwordless sudo by editing /etc/sudoers under   *)
(* the /etc/sudoers.tmp lock marker, and rewrites the user's               *)
(* ~/.ssh/authorized_keys.                                                 *)
(*                                                                         *)
(* Text is modelled at the level the code works on it: a line is a         *)
(* sequence of one-character strings that includes its terminating "\n"    *)
(* when it has one, and a file is the sequence of lines readlines()        *)
(* returns for it.                                                         *)
(***************************************************************************)
EXTENDS Naturals, Sequences, FiniteSets

VARIABLES
  sudoers,     \* /etc/sudoers: [exists, lines, mode]
  lockExists,  \* whether /etc/sudoers.tmp exists
  accounts,    \* the user names pwd.getpwnam finds
  dirs,        \* the home and .ssh directories that exist: <<user, kind>>
  authKeys,    \* <home>/.ssh/authorized_keys of each user: [exists, lines]
  pc,          \* where each process is in the code
  loc,         \* each process's arguments and local variables
  tmp,         \* the mkstemp() file of each process's MakeUserSudoer call
  ktmp,        \* the CreateTempFile() file of each process's keys write
  gh,          \* history of each process's current call (not program state)
  akOrig       \* the authorized_keys files as they were at the start (history)

vars == <<sudoers, lockExists, accounts, dirs, authKeys, pc, loc, tmp, ktmp,
          gh, akOrig>>

---------------------------------------------------------------------------
(* Bounds of the model. *)

\* How many calls each process makes.
MaxCalls == 2
\* The longest authorized_keys file the keys model starts from, in lines.
MaxLines == 3

Procs == {1, 2}

---------------------------------------------------------------------------
(* Text. *)

NL == "\n"

\* The characters \s matches, but for the vertical tab, which no line of the
\* model holds.
Whitespace == {" ", "\t", "\n", "\r", "\f"}

RECURSIVE Concat(_)
\* The concatenation of a sequence of sequences.
Concat(ss) == IF ss = <<>> THEN <<>> ELSE Head(ss) \o Concat(Tail(ss))

\* line.endswith('\n')
EndsWithNewline(line) == Len(line) > 0 /\ line[Len(line)] = NL

EnsureTrailingNewline(line) ==
  IF EndsWithNewline(line) THEN line ELSE line \o <<NL>>

\* line.startswith(prefix)
StartsWith(line, prefix) ==
  /\ Len(line) >= Len(prefix)
  /\ SubSeq(line, 1, Len(prefix)) = prefix

\* [f(line) for line in lines]
Normalized(lines) == [i \in 1..Len(lines) |-> EnsureTrailingNewline(lines[i])]

\* The proper prefixes of a sequence: what a write that fails part-way leaves.
ProperPrefixes(s) == {SubSeq(s, 1, k) : k \in 0..(Len(s) - 1)}

\* A file's content as readlines() can return it: no line is empty, and only
\* the last line may lack its newline.
IsFileContent(lines) ==
  \A i \in 1..Len(lines) :
    /\ Len(lines[i]) > 0
    /\ \A j \in 1..(Len(lines[i]) - 1) : lines[i][j] # NL
    /\ i < Len(lines) => EndsWithNewline(lines[i])

---------------------------------------------------------------------------
(* User names. *)

VALID_USERNAME_CHARS ==
  {"A", "B", "C", "D", "E", "F", "G", "H", "I", "J", "K", "L", "M",
   "N", "O", "P", "Q", "R", "S", "T", "U", "V", "W", "X", "Y", "Z"} \cup
  {"a", "b", "c", "d", "e", "f", "g", "h", "i", "j", "k", "l", "m",
   "n", "o", "p", "q", "r", "s", "t", "u", "v", "w", "x", "y", "z"} \cup
  {"0", "1", "2", "3", "4", "5", "6", "7", "8", "9"} \cup
  {"_", "-", "."}

\* filter(InvalidCharacterFilter, username): the invalid characters of it.
InvalidCharacters(username) ==
  SelectSeq(username, LAMBDA c : c \notin VALID_USERNAME_CHARS)

IsValidUsername(username) ==
  IF InvalidCharacters(username) # <<>> THEN FALSE
  ELSE IF StartsWith(username, <<"-">>) THEN FALSE
  ELSE TRUE

\* The names the account feed hands to CreateUser in this model: two valid
\* names, one of which the other's pattern matches, and two invalid ones.
UserDot == <<"a", ".", "b">>
UserAab == <<"a", "a", "b">>
UserSlash == <<"b", "/">>
UserHyphen == <<"-", "a">>

ValidUsers == {UserDot, UserAab}
FeedUsers == ValidUsers \cup {UserSlash, UserHyphen}

---------------------------------------------------------------------------
(* The sudoers rule of a user and the test for it. *)

\* '%s ALL=NOPASSWD: ALL' % user
RuleLine(user) ==
  user \o <<" ", "A", "L", "L", "=", "N", "O", "P", "A", "S", "S", "W", "D",
            ":", " ", "A", "L", "L">>

\* re.match(r'^%s\s+' % user, line): the user name is pasted into the
\* pattern unescaped, so of the characters a valid name can hold, "." stands
\* for any character but a newline and every other one for itself.
IsUserSudoerEntry(user, line) ==
  /\ Len(line) > Len(user)
  /\ \A i \in 1..Len(user) :
       IF user[i] = "." THEN line[i] # NL ELSE line[i] = user[i]
  /\ line[Len(user) + 1] \in Whitespace

\* filter(IsUserSudoerEntry, sudoer_lines), used for its truth value.
IsUserSudoerInLines(user, sudoer_lines) ==
  SelectSeq(sudoer_lines, LAMBDA line : IsUserSudoerEntry(user, line)) # <<>>

\* sudoer_lines.append(rule); [EnsureTrailingNewline(l) for l in sudoer_lines]
Candidate(user, sudoer_lines) == Normalized(Append(sudoer_lines, RuleLine(user)))


---------------------------------------------------------------------------
(* Processes.  A process runs one call at a time; the call it was asked    *)
(* for is loc[p].entry.  gh[p] records what the current call has done so   *)
(* far and is read by the properties only.                                 *)

NoFile == [exists |-> FALSE, lines |-> <<>>]

NoTempKeys == [exists |-> FALSE, lines |-> <<>>, mode |-> "none",
               owner |-> "none"]

InitLoc == [entry |-> "none", user |-> <<>>, ssh_keys |-> <<>>,
            sudoer_lines |-> <<>>, user_lines |-> <<>>]

NoPrev == [user |-> <<>>, clean |-> FALSE]

\* The files, directories and accounts as they are.
Disk == [sudoers |-> sudoers, lockExists |-> lockExists,
         accounts |-> accounts, dirs |-> dirs, authKeys |-> authKeys]

NoDisk == [sudoers |-> NoFile, lockExists |-> FALSE, accounts |-> {},
           dirs |-> {}, authKeys |-> <<>>]

InitGh(sud, rec) ==
  [rec |-> rec, calls |-> 0, start |-> NoDisk, outcome |-> "none", before |-> sud, akBefore |-> NoFile,
   clean |-> TRUE, acquired |-> FALSE, lockBusy |-> FALSE,
   verdict |-> "none", wrote |-> FALSE, tmpCreated |-> FALSE,
   unlockFailed |-> FALSE, moved |-> FALSE, did |-> {}, prev |-> NoPrev,
   landed |-> <<>>, skipped |-> FALSE, mishap |-> FALSE]

\* The history of a call that begins now.
BeginGh(p) ==
  [InitGh(sudoers, gh[p].rec) EXCEPT
     !.calls = gh[p].calls + 1,
     !.start = Disk,
     !.outcome = "running",
     !.clean = sudoers.exists /\ ~lockExists,
     !.landed = gh[p].landed,
     !.prev = IF gh[p].calls = 0 THEN NoPrev
              ELSE [user |-> loc[p].user,
                    clean |-> gh[p].clean /\ gh[p].outcome = "returned"]]

Did(p, what) == [gh EXCEPT ![p].did = @ \cup {what}]

\* The history G with it noted that the call of p met an I/O error (or, in
\* MUS_Validate, a candidate the policy checker turned down).
Mishap(p, G) == [G EXCEPT ![p].clean = FALSE, ![p].mishap = TRUE]

\* The history after a step of process p that makes it G: all of G where the
\* whole history is kept (gh[p].rec = "all"); where the lock is looked at
\* ("lock"), no more of it than the number of calls, what became of the lock,
\* and the lines of the last write of p to /etc/sudoers that went through;
\* and where calls go on for ever ("mishap"), only whether the call met an
\* I/O error.
Rec(p, G) ==
  IF gh[p].rec = "all" THEN G
  ELSE IF gh[p].rec = "lock"
    THEN [gh EXCEPT ![p].calls = G[p].calls,
                    ![p].acquired = G[p].acquired,
                    ![p].unlockFailed = G[p].unlockFailed,
                    ![p].landed = G[p].landed]
    ELSE [gh EXCEPT ![p].mishap = G[p].mishap]

\* Control leaves the call p was asked for, by a return or by an exception
\* nothing in accounts.py catches.
Leave(p, how) ==
  /\ pc' = [pc EXCEPT ![p] = "idle"]
  /\ gh' = Rec(p, [gh EXCEPT ![p].outcome = how,
                      ![p].clean = @ /\ how = "returned",
                      ![p].mishap = @ \/ how = "raised"])

---------------------------------------------------------------------------
(* MakeUserSudoer(user), lines 165-230. *)

sudoersVars == <<sudoers, lockExists, tmp>>
keysVars == <<authKeys, ktmp, dirs, akOrig>>

\* MakeUserSudoer returns: to AuthorizeSshKeys when CreateUser called it
\* (line 95), else to the caller.
ReturnFromSudoer(p, G) ==
  IF loc[p].entry = "CreateUser"
    THEN /\ pc' = [pc EXCEPT ![p] = "ask_isdir"]
         /\ gh' = Rec(p, G)
    ELSE /\ pc' = [pc EXCEPT ![p] = "idle"]
         /\ gh' = Rec(p, [G EXCEPT ![p].outcome = "returned"])

\* Lines 167-171: without /etc/sudoers there is nothing to do.
MUS_IsFile(p) ==
  /\ pc[p] = "mus_isfile"
  /\ IF sudoers.exists
       THEN /\ pc' = [pc EXCEPT ![p] = "mus_read"]
            /\ gh' = gh
       ELSE ReturnFromSudoer(p, [gh EXCEPT ![p].clean = FALSE])
  /\ UNCHANGED <<sudoersVars, keysVars, accounts, loc>>

\* Lines 173-179: the read outside the lock and the first membership test.
\* An IOError of the read is caught nowhere in accounts.py.
MUS_Read(p) ==
  /\ pc[p] = "mus_read"
  /\ \/ /\ loc' = [loc EXCEPT ![p].sudoer_lines = sudoers.lines]
        /\ IF IsUserSudoerInLines(loc[p].user, sudoers.lines)
             THEN ReturnFromSudoer(p, [gh EXCEPT ![p].skipped = TRUE])
             ELSE /\ pc' = [pc EXCEPT ![p] = "mus_lock"]
                  /\ gh' = gh
     \/ /\ Leave(p, "raised")
        /\ loc' = loc
  /\ UNCHANGED <<sudoersVars, keysVars, accounts>>

\* LockSudoers and its caller as they would be with the call of line 182
\* inside the try of line 187: a caller that finds the marker in place goes
\* on to the finally of line 229.
LockSudoersInsideTry(p) ==
  /\ pc[p] = "mus_lock"
  /\ \/ /\ ~lockExists
        /\ lockExists' = TRUE
        /\ pc' = [pc EXCEPT ![p] = "mus_read_locked"]
        /\ gh' = Rec(p, [Did(p, "lock") EXCEPT ![p].acquired = TRUE])
     \/ /\ lockExists
        /\ lockExists' = lockExists
        /\ pc' = [pc EXCEPT ![p] = "mus_unlock"]
        /\ gh' = Rec(p, [gh EXCEPT ![p].lockBusy = TRUE, ![p].clean = FALSE])
  /\ UNCHANGED <<sudoers, tmp, keysVars, accounts, loc>>

\* LockSudoers as it would be without O_EXCL: the marker is created whether
\* or not it is there.
LockSudoersIgnoringMarker(p) ==
  /\ pc[p] = "mus_lock"
  /\ lockExists' = TRUE
  /\ pc' = [pc EXCEPT ![p] = "mus_read_locked"]
  /\ gh' = Rec(p, [Did(p, "lock") EXCEPT ![p].acquired = TRUE,
                                 ![p].lockBusy = lockExists])
  /\ UNCHANGED <<sudoers, tmp, keysVars, accounts, loc>>

\* LockSudoers, lines 137-152, and its caller's test, lines 182-185:
\* os.open with O_EXCL|O_CREAT creates the marker or fails; on EEXIST or any
\* other OSError LockSudoers returns False and the grant is abandoned.
LockSudoers(p) ==
  /\ pc[p] = "mus_lock"
  /\ \/ /\ ~lockExists
        /\ lockExists' = TRUE
        /\ pc' = [pc EXCEPT ![p] = "mus_read_locked"]
        /\ gh' = Rec(p, [Did(p, "lock") EXCEPT ![p].acquired = TRUE])
     \/ /\ lockExists
        /\ lockExists' = lockExists
        /\ ReturnFromSudoer(p, [gh EXCEPT ![p].lockBusy = TRUE,
                                          ![p].clean = FALSE])
     \/ /\ ~lockExists
        /\ lockExists' = lockExists
        /\ ReturnFromSudoer(p, Mishap(p, gh))
  /\ UNCHANGED <<sudoers, tmp, keysVars, accounts, loc>>

\* The read under the lock as it would be without the second membership
\* test of lines 192-194.
MUS_ReadLockedNoSecondTest(p) ==
  /\ pc[p] = "mus_read_locked"
  /\ \/ /\ loc' = [loc EXCEPT ![p].sudoer_lines =
                     Candidate(loc[p].user, sudoers.lines)]
        /\ pc' = [pc EXCEPT ![p] = "mus_mkstemp"]
        /\ gh' = gh
     \/ /\ pc' = [pc EXCEPT ![p] = "mus_unlock"]
        /\ gh' = Rec(p, Mishap(p, gh))
        /\ loc' = loc
  /\ UNCHANGED <<sudoersVars, keysVars, accounts>>

\* The read under the lock as it would be with the return of line 194
\* outside the try: the call is over with the marker still there.
MUS_ReadLockedReturnsAtOnce(p) ==
  /\ pc[p] = "mus_read_locked"
  /\ IF IsUserSudoerInLines(loc[p].user, sudoers.lines)
       THEN /\ loc' = [loc EXCEPT ![p].sudoer_lines = sudoers.lines]
            /\ ReturnFromSudoer(p, gh)
       ELSE /\ loc' = [loc EXCEPT ![p].sudoer_lines =
                          Candidate(loc[p].user, sudoers.lines)]
            /\ pc' = [pc EXCEPT ![p] = "mus_mkstemp"]
            /\ gh' = gh
  /\ UNCHANGED <<sudoersVars, keysVars, accounts>>

\* Lines 188-198: the read under the lock, the second membership test and
\* the candidate.  From here on an IOError or OSError is caught at line 227.
MUS_ReadLocked(p) ==
  /\ pc[p] = "mus_read_locked"
  /\ \/ IF IsUserSudoerInLines(loc[p].user, sudoers.lines)
          THEN /\ loc' = [loc EXCEPT ![p].sudoer_lines = sudoers.lines]
               /\ pc' = [pc EXCEPT ![p] = "mus_unlock"]
               /\ gh' = Rec(p, [gh EXCEPT ![p].skipped = TRUE])
          ELSE /\ loc' = [loc EXCEPT ![p].sudoer_lines =
                             Candidate(loc[p].user, sudoers.lines)]
               /\ pc' = [pc EXCEPT ![p] = "mus_mkstemp"]
               /\ gh' = gh
     \/ /\ pc' = [pc EXCEPT ![p] = "mus_unlock"]
        /\ gh' = Rec(p, Mishap(p, gh))
        /\ loc' = loc
  /\ UNCHANGED <<sudoersVars, keysVars, accounts>>

\* Line 199: tempfile.mkstemp().
MUS_Mkstemp(p) ==
  /\ pc[p] = "mus_mkstemp"
  /\ \/ /\ tmp' = [tmp EXCEPT ![p] = [exists |-> TRUE, lines |-> <<>>]]
        /\ pc' = [pc EXCEPT ![p] = "mus_write_tmp"]
        /\ gh' = Rec(p, [Did(p, "tmp") EXCEPT ![p].tmpCreated = TRUE])
     \/ /\ tmp' = tmp
        /\ pc' = [pc EXCEPT ![p] = "mus_unlock"]
        /\ gh' = Rec(p, Mishap(p, gh))
  /\ UNCHANGED <<sudoers, lockExists, keysVars, accounts, loc>>

\* Lines 200-203: the candidate goes to the temporary file.  These lines
\* stand before the try of line 205, so an IOError here goes straight to the
\* handler of line 227 and the finally of line 229.
MUS_WriteTmp(p) ==
  /\ pc[p] = "mus_write_tmp"
  /\ \/ /\ tmp' = [tmp EXCEPT ![p].lines = loc[p].sudoer_lines]
        /\ pc' = [pc EXCEPT ![p] = "mus_validate"]
        /\ gh' = gh
     \/ /\ \E part \in ProperPrefixes(loc[p].sudoer_lines) :
             tmp' = [tmp EXCEPT ![p].lines = part]
        /\ pc' = [pc EXCEPT ![p] = "mus_unlock"]
        /\ gh' = Rec(p, Mishap(p, gh))
  /\ UNCHANGED <<sudoers, lockExists, keysVars, accounts, loc>>

\* The validation as it would be with its result ignored.
MUS_ValidateIgnored(p) ==
  /\ pc[p] = "mus_validate"
  /\ \E valid \in BOOLEAN :
       /\ gh' = Rec(p, [gh EXCEPT ![p].verdict = IF valid THEN "valid" ELSE "invalid",
                           ![p].clean = @ /\ valid,
                           ![p].mishap = @ \/ ~valid])
       /\ pc' = [pc EXCEPT ![p] = "mus_chmod"]
  /\ UNCHANGED <<sudoersVars, keysVars, accounts, loc>>

\* Lines 207-210: the policy checker's verdict on the temporary file.
MUS_Validate(p) ==
  /\ pc[p] = "mus_validate"
  /\ \E valid \in BOOLEAN :
       /\ gh' = Rec(p, [gh EXCEPT ![p].verdict = IF valid THEN "valid" ELSE "invalid",
                           ![p].clean = @ /\ valid,
                           ![p].mishap = @ \/ ~valid])
       /\ pc' = [pc EXCEPT ![p] = IF valid THEN "mus_chmod"
                                           ELSE "mus_unlink_tmp"]
  /\ UNCHANGED <<sudoersVars, keysVars, accounts, loc>>

\* Line 212: os.chmod('/etc/sudoers', 0640).
MUS_Chmod(p) ==
  /\ pc[p] = "mus_chmod"
  /\ \/ /\ sudoers' = [sudoers EXCEPT !.mode = "0640"]
        /\ pc' = [pc EXCEPT ![p] = "mus_open_w"]
        /\ gh' = Rec(p, Did(p, "sudoers"))
     \/ /\ sudoers' = sudoers
        /\ pc' = [pc EXCEPT ![p] = "mus_unlink_tmp"]
        /\ gh' = Rec(p, Mishap(p, gh))
  /\ UNCHANGED <<lockExists, tmp, keysVars, accounts, loc>>

\* Line 213: opening /etc/sudoers for 'w' empties the live file.
MUS_OpenW(p) ==
  /\ pc[p] = "mus_open_w"
  /\ \/ /\ sudoers' = [sudoers EXCEPT !.lines = <<>>]
        /\ pc' = [pc EXCEPT ![p] = "mus_writelines"]
        /\ gh' = Rec(p, [Did(p, "sudoers") EXCEPT ![p].wrote = TRUE])
     \/ /\ sudoers' = sudoers
        /\ pc' = [pc EXCEPT ![p] = "mus_unlink_tmp"]
        /\ gh' = Rec(p, Mishap(p, gh))
  /\ UNCHANGED <<lockExists, tmp, keysVars, accounts, loc>>

\* Line 214: the candidate goes to the live file; a write that fails has
\* put some of the lines there.
MUS_Writelines(p) ==
  /\ pc[p] = "mus_writelines"
  /\ \/ /\ sudoers' = [sudoers EXCEPT !.lines = loc[p].sudoer_lines]
        /\ pc' = [pc EXCEPT ![p] = "mus_fchmod_w"]
        /\ gh' = Rec(p, [gh EXCEPT ![p].landed = loc[p].sudoer_lines])
     \/ /\ \E part \in ProperPrefixes(loc[p].sudoer_lines) :
             sudoers' = [sudoers EXCEPT !.lines = part]
        /\ pc' = [pc EXCEPT ![p] = "mus_unlink_tmp"]
        /\ gh' = Rec(p, Mishap(p, gh))
  /\ UNCHANGED <<lockExists, tmp, keysVars, accounts, loc>>

\* Line 216: fchmod to S_IWUSR | 0640, which is 0640.
MUS_FchmodW(p) ==
  /\ pc[p] = "mus_fchmod_w"
  /\ \/ /\ sudoers' = [sudoers EXCEPT !.mode = "0640"]
        /\ pc' = [pc EXCEPT ![p] = "mus_fchmod_r"]
        /\ gh' = gh
     \/ /\ sudoers' = sudoers
        /\ pc' = [pc EXCEPT ![p] = "mus_unlink_tmp"]
        /\ gh' = Rec(p, Mishap(p, gh))
  /\ UNCHANGED <<lockExists, tmp, keysVars, accounts, loc>>

\* Lines 217-220: fchmod to 0440; a failure is logged and the grant stands.
MUS_FchmodR(p) ==
  /\ pc[p] = "mus_fchmod_r"
  /\ \/ /\ sudoers' = [sudoers EXCEPT !.mode = "0440"]
        /\ gh' = gh
     \/ /\ sudoers' = sudoers
        /\ gh' = Rec(p, Mishap(p, gh))
  /\ pc' = [pc EXCEPT ![p] = "mus_unlink_tmp"]
  /\ UNCHANGED <<lockExists, tmp, keysVars, accounts, loc>>

\* Lines 221-226: the finally of the inner try unlinks the temporary file and
\* swallows an error of the unlink.
MUS_UnlinkTmp(p) ==
  /\ pc[p] = "mus_unlink_tmp"
  /\ \/ /\ tmp' = [tmp EXCEPT ![p].exists = FALSE]
        /\ gh' = gh
     \/ /\ tmp' = tmp
        /\ gh' = Rec(p, [gh EXCEPT ![p].mishap = TRUE])
  /\ pc' = [pc EXCEPT ![p] = "mus_unlock"]
  /\ UNCHANGED <<sudoers, lockExists, keysVars, accounts, loc>>

\* UnlockSudoers, lines 154-163, run by the finally of line 229: the unlink
\* removes the marker, or finds none (ENOENT), or fails with another OSError,
\* which is logged.  Then MakeUserSudoer is over.
UnlockSudoers(p) ==
  /\ pc[p] = "mus_unlock"
  /\ \/ /\ lockExists' = FALSE
        /\ ReturnFromSudoer(p, gh)
     \/ /\ lockExists
        /\ lockExists' = lockExists
        /\ ReturnFromSudoer(p, [Mishap(p, gh) EXCEPT
                                   ![p].unlockFailed = TRUE])
  /\ UNCHANGED <<sudoers, tmp, keysVars, accounts, loc>>

MakeUserSudoer(p) ==
  \/ MUS_IsFile(p)
  \/ MUS_Read(p)
  \/ LockSudoers(p)
  \/ MUS_ReadLocked(p)
  \/ MUS_Mkstemp(p)
  \/ MUS_WriteTmp(p)
  \/ MUS_Validate(p)
  \/ MUS_Chmod(p)
  \/ MUS_OpenW(p)
  \/ MUS_Writelines(p)
  \/ MUS_FchmodW(p)
  \/ MUS_FchmodR(p)
  \/ MUS_UnlinkTmp(p)
  \/ UnlockSudoers(p)

\* The process is killed in the middle of a call.
Kill(p) ==
  /\ pc[p] \notin {"idle", "killed"}
  /\ pc' = [pc EXCEPT ![p] = "killed"]
  /\ gh' = Rec(p, [gh EXCEPT ![p].clean = FALSE])
  /\ UNCHANGED <<sudoersVars, keysVars, accounts, loc>>

---------------------------------------------------------------------------
(* WriteAuthorizedSshKeysFile(authorized_keys_file, ssh_keys, uid, gid),   *)
(* lines 320-363.  The file is the authorized_keys of loc[p].user.         *)

\* '# Added by Google'
Marker == <<"#", " ", "A", "d", "d", "e", "d", " ", "b", "y", " ",
            "G", "o", "o", "g", "l", "e">>

\* Lines 342-344, with indices from 1: the lines but the last that start
\* with the marker text, and the line after each.
GoogleAddedIxs(lines) ==
  LET marked == {i \in 1..(Len(lines) - 1) : StartsWith(lines[i], Marker)}
  IN  marked \cup {i + 1 : i \in marked}

RECURSIVE LinesNotAt(_, _, _)
\* [lines[i] for i in range(len(lines)) if i not in ixs], from index i on.
LinesNotAt(lines, ixs, i) ==
  IF i > Len(lines) THEN <<>>
  ELSE IF i \in ixs THEN LinesNotAt(lines, ixs, i + 1)
  ELSE <<lines[i]>> \o LinesNotAt(lines, ixs, i + 1)

\* Lines 346-347.
UserLines(lines) == LinesNotAt(lines, GoogleAddedIxs(lines), 1)

\* Lines 354-355: what the first loop writes.
WrittenUserLines(user_lines) == Normalized(user_lines)

\* Lines 358-360: what the second loop writes.
WrittenKeyLines(ssh_keys) ==
  Concat([i \in 1..Len(ssh_keys) |->
            <<Marker \o <<NL>>, EnsureTrailingNewline(ssh_keys[i])>>])

\* An exception leaves WriteAuthorizedSshKeysFile.  AuthorizeSshKeys, when it
\* is the caller, catches an IOError (line 260), logs it and returns; an
\* OSError it does not catch.
KeysRaise(p, kind, G) ==
  IF loc[p].entry = "CreateUser" /\ kind = "IOError"
    THEN /\ pc' = [pc EXCEPT ![p] = "idle"]
         /\ gh' = Rec(p, [Mishap(p, G) EXCEPT ![p].outcome = "returned"])
    ELSE /\ pc' = [pc EXCEPT ![p] = "idle"]
         /\ gh' = Rec(p, [Mishap(p, G) EXCEPT ![p].outcome = "raised"])

\* Line 331: system.CreateTempFile(delete=False).
WK_Create(p) ==
  /\ pc[p] = "wk_create"
  /\ \/ /\ ktmp' = [ktmp EXCEPT ![p] = [exists |-> TRUE, lines |-> <<>>,
                                        mode |-> "default", owner |-> "root"]]
        /\ pc' = [pc EXCEPT ![p] = "wk_read"]
        /\ gh' = Rec(p, Did(p, "keystmp"))
     \/ /\ ktmp' = ktmp
        /\ \E kind \in {"IOError", "OSError"} : KeysRaise(p, kind, gh)
  /\ UNCHANGED <<sudoersVars, authKeys, dirs, akOrig, accounts, loc>>

\* Lines 334-347: the lines of the file, if there is one, and the user's
\* lines among them.
WK_Read(p) ==
  /\ pc[p] = "wk_read"
  /\ \/ /\ loc' = [loc EXCEPT ![p].user_lines =
                     IF authKeys[loc[p].user].exists
                       THEN UserLines(authKeys[loc[p].user].lines)
                       ELSE UserLines(<<>>)]
        /\ pc' = [pc EXCEPT ![p] = "wk_fchmod"]
        /\ gh' = gh
     \/ /\ authKeys[loc[p].user].exists
        /\ loc' = loc
        /\ KeysRaise(p, "IOError", gh)
  /\ UNCHANGED <<sudoersVars, keysVars, accounts>>

\* Line 350: fchmod of the temporary file to 0600.
WK_Fchmod(p) ==
  /\ pc[p] = "wk_fchmod"
  /\ \/ /\ ktmp' = [ktmp EXCEPT ![p].mode = "0600"]
        /\ pc' = [pc EXCEPT ![p] = "wk_fchown"]
        /\ gh' = gh
     \/ /\ ktmp' = ktmp
        /\ KeysRaise(p, "OSError", gh)
  /\ UNCHANGED <<sudoersVars, authKeys, dirs, akOrig, accounts, loc>>

\* The fchown as it would be with its failure caught and passed over.
WK_FchownFailurePassedOver(p) ==
  /\ pc[p] = "wk_fchown"
  /\ \/ ktmp' = [ktmp EXCEPT ![p].owner = "user"]
     \/ ktmp' = ktmp
  /\ pc' = [pc EXCEPT ![p] = "wk_write_user"]
  /\ gh' = gh
  /\ UNCHANGED <<sudoersVars, authKeys, dirs, akOrig, accounts, loc>>

\* Line 351: fchown of the temporary file to (uid, gid).
WK_Fchown(p) ==
  /\ pc[p] = "wk_fchown"
  /\ \/ /\ ktmp' = [ktmp EXCEPT ![p].owner = "user"]
        /\ pc' = [pc EXCEPT ![p] = "wk_write_user"]
        /\ gh' = gh
     \/ /\ ktmp' = ktmp
        /\ KeysRaise(p, "OSError", gh)
  /\ UNCHANGED <<sudoersVars, authKeys, dirs, akOrig, accounts, loc>>

\* The first loop as it would be if it wrote to the authorized keys file
\* itself.
WK_WriteUserInPlace(p) ==
  /\ pc[p] = "wk_write_user"
  /\ authKeys' = [authKeys EXCEPT ![loc[p].user] =
                    [exists |-> TRUE,
                     lines |-> WrittenUserLines(loc[p].user_lines)]]
  /\ pc' = [pc EXCEPT ![p] = "wk_write_keys"]
  /\ gh' = Rec(p, Did(p, "keys"))
  /\ UNCHANGED <<sudoersVars, ktmp, dirs, akOrig, accounts, loc>>

\* Lines 354-355: the user's lines go to the temporary file.
WK_WriteUser(p) ==
  /\ pc[p] = "wk_write_user"
  /\ \/ /\ ktmp' = [ktmp EXCEPT ![p].lines =
                      WrittenUserLines(loc[p].user_lines)]
        /\ pc' = [pc EXCEPT ![p] = "wk_write_keys"]
        /\ gh' = gh
     \/ /\ \E part \in ProperPrefixes(WrittenUserLines(loc[p].user_lines)) :
             ktmp' = [ktmp EXCEPT ![p].lines = part]
        /\ KeysRaise(p, "IOError", gh)
  /\ UNCHANGED <<sudoersVars, authKeys, dirs, akOrig, accounts, loc>>

\* Lines 358-360: the keys go to the temporary file, each after a marker
\* line; leaving the with block closes the file.
WK_WriteKeys(p) ==
  /\ pc[p] = "wk_write_keys"
  /\ \/ /\ ktmp' = [ktmp EXCEPT ![p].lines =
                      @ \o WrittenKeyLines(loc[p].ssh_keys)]
        /\ pc' = [pc EXCEPT ![p] = "wk_move"]
        /\ gh' = gh
     \/ /\ \E part \in ProperPrefixes(WrittenKeyLines(loc[p].ssh_keys)) :
             ktmp' = [ktmp EXCEPT ![p].lines = @ \o part]
        /\ KeysRaise(p, "IOError", gh)
  /\ UNCHANGED <<sudoersVars, authKeys, dirs, akOrig, accounts, loc>>

\* system.MoveFile(src, dst): the file at the destination becomes the source
\* file in one step, or the move fails and changes nothing.
MoveFile(p, user, done) ==
  IF done
    THEN /\ authKeys' = [authKeys EXCEPT ![user] =
                           [exists |-> TRUE, lines |-> ktmp[p].lines]]
         /\ ktmp' = [ktmp EXCEPT ![p].exists = FALSE]
    ELSE /\ authKeys' = authKeys
         /\ ktmp' = ktmp

\* Line 363: the temporary file is moved over the authorized keys file, and
\* WriteAuthorizedSshKeysFile is over.
WK_Move(p) ==
  /\ pc[p] = "wk_move"
  /\ \E done \in BOOLEAN :
       /\ MoveFile(p, loc[p].user, done)
       /\ IF done
            THEN /\ pc' = [pc EXCEPT ![p] = "idle"]
                 /\ gh' = Rec(p, [Did(p, "keys") EXCEPT ![p].outcome = "returned",
                                                 ![p].moved = TRUE])
            ELSE KeysRaise(p, "IOError", gh)
  /\ UNCHANGED <<sudoersVars, dirs, akOrig, accounts, loc>>

WriteAuthorizedSshKeysFile(p) ==
  \/ WK_Create(p)
  \/ WK_Read(p)
  \/ WK_Fchmod(p)
  \/ WK_Fchown(p)
  \/ WK_WriteUser(p)
  \/ WK_WriteKeys(p)
  \/ WK_Move(p)

---------------------------------------------------------------------------
(* AuthorizeSshKeys(user, ssh_keys), lines 232-261, with EnsureHomeDir and *)
(* EnsureDir, lines 263-318.  The parent of a home directory exists, so    *)
(* EnsureDir makes one directory; a directory's owner is not modelled.     *)

Home(user) == <<user, "home">>
SshDir(user) == <<user, "ssh">>

\* AuthorizeSshKeys returns, and with it CreateUser (line 95 is its last).
ReturnFromAuthorize(p, G) ==
  /\ pc' = [pc EXCEPT ![p] = "idle"]
  /\ gh' = Rec(p, [G EXCEPT ![p].outcome = "returned"])

\* WriteAuthorizedSshKeysFile is called, line 259.
EnterWriteKeys(p, G) ==
  /\ pc' = [pc EXCEPT ![p] = "wk_create"]
  /\ gh' = Rec(p, [G EXCEPT ![p].akBefore = authKeys[loc[p].user]])

\* Lines 234-238: is there an .ssh directory?
ASK_IsDir(p) ==
  /\ pc[p] = "ask_isdir"
  /\ IF SshDir(loc[p].user) \in dirs
       THEN EnterWriteKeys(p, gh)
       ELSE /\ pc' = [pc EXCEPT ![p] = "ask_ensure_home"]
            /\ gh' = gh
  /\ UNCHANGED <<sudoersVars, keysVars, accounts, loc>>

\* Line 241, EnsureHomeDir: the home directory is there; or EnsureDir makes
\* it and line 284 gives it to the user; or the mkdir or chown of EnsureDir
\* fails and AuthorizeSshKeys returns False (line 242; the chown leaves the
\* directory behind); or the chown of line 284 fails, the OSError is
\* logged at line 248, and line 251 returns False.
EnsureHomeDir(p) ==
  /\ pc[p] = "ask_ensure_home"
  /\ \/ /\ Home(loc[p].user) \in dirs
        /\ dirs' = dirs
        /\ pc' = [pc EXCEPT ![p] = "ask_mkdir_ssh"]
        /\ gh' = gh
     \/ /\ Home(loc[p].user) \notin dirs
        /\ dirs' = dirs \cup {Home(loc[p].user)}
        /\ pc' = [pc EXCEPT ![p] = "ask_mkdir_ssh"]
        /\ gh' = Rec(p, Did(p, "dir"))
     \/ /\ Home(loc[p].user) \notin dirs
        /\ dirs' = dirs
        /\ ReturnFromAuthorize(p, Mishap(p, gh))
     \/ /\ Home(loc[p].user) \notin dirs
        /\ dirs' = dirs \cup {Home(loc[p].user)}
        /\ ReturnFromAuthorize(p, Mishap(p, Did(p, "dir")))
  /\ UNCHANGED <<sudoersVars, authKeys, ktmp, akOrig, accounts, loc>>

\* Lines 245-251: mkdir and chown of the .ssh directory.  An OSError of
\* either is logged; the keys are written if the directory is there.
ASK_MkdirSsh(p) ==
  /\ pc[p] = "ask_mkdir_ssh"
  /\ \/ /\ dirs' = dirs \cup {SshDir(loc[p].user)}
        /\ \E chowned \in BOOLEAN :
             EnterWriteKeys(p, [Did(p, "dir") EXCEPT
                                  ![p].clean = @ /\ chowned])
     \/ /\ dirs' = dirs
        /\ ReturnFromAuthorize(p, Mishap(p, gh))
  /\ UNCHANGED <<sudoersVars, authKeys, ktmp, akOrig, accounts, loc>>

AuthorizeSshKeys(p) ==
  \/ ASK_IsDir(p)
  \/ EnsureHomeDir(p)
  \/ ASK_MkdirSsh(p)

---------------------------------------------------------------------------
(* CreateUser(username, ssh_keys), lines 81-95. *)

\* The validation as it would be without the test of line 107.
CU_ValidateNoHyphenCheck(p) ==
  /\ pc[p] = "cu_validate"
  /\ IF InvalidCharacters(loc[p].user) = <<>>
       THEN /\ pc' = [pc EXCEPT ![p] = "cu_exists"]
            /\ gh' = gh
       ELSE Leave(p, "returned")
  /\ UNCHANGED <<sudoersVars, keysVars, accounts, loc>>

\* Lines 84-88: an invalid user name is logged and nothing more is done.
CU_Validate(p) ==
  /\ pc[p] = "cu_validate"
  /\ IF IsValidUsername(loc[p].user)
       THEN /\ pc' = [pc EXCEPT ![p] = "cu_exists"]
            /\ gh' = gh
       ELSE Leave(p, "returned")
  /\ UNCHANGED <<sudoersVars, keysVars, accounts, loc>>

\* Line 90: UserExists.
CU_Exists(p) ==
  /\ pc[p] = "cu_exists"
  /\ pc' = [pc EXCEPT ![p] = IF loc[p].user \in accounts
                               THEN "cu_recheck" ELSE "cu_useradd"]
  /\ UNCHANGED <<sudoersVars, keysVars, accounts, loc, gh>>

\* Line 91: system.UserAdd makes the account or fails to.
CU_UserAdd(p) ==
  /\ pc[p] = "cu_useradd"
  /\ \/ accounts' = accounts \cup {loc[p].user}
     \/ accounts' = accounts
  /\ pc' = [pc EXCEPT ![p] = "cu_recheck"]
  /\ gh' = Rec(p, Did(p, "useradd"))
  /\ UNCHANGED <<sudoersVars, keysVars, loc>>

\* The second test as it would be if line 93 were not there: MakeUserSudoer
\* is called whether or not the account is there.
CU_RecheckLeftOut(p) ==
  /\ pc[p] = "cu_recheck"
  /\ pc' = [pc EXCEPT ![p] = "mus_isfile"]
  /\ gh' = Rec(p, [gh EXCEPT ![p].before = sudoers])
  /\ UNCHANGED <<sudoersVars, keysVars, accounts, loc>>

\* Lines 93-94: with the account there, MakeUserSudoer is called.
CU_Recheck(p) ==
  /\ pc[p] = "cu_recheck"
  /\ IF loc[p].user \in accounts
       THEN /\ pc' = [pc EXCEPT ![p] = "mus_isfile"]
            /\ gh' = Rec(p, [gh EXCEPT ![p].before = sudoers])
       ELSE Leave(p, "returned")
  /\ UNCHANGED <<sudoersVars, keysVars, accounts, loc>>

CreateUser(p) ==
  \/ CU_Validate(p)
  \/ CU_Exists(p)
  \/ CU_UserAdd(p)
  \/ CU_Recheck(p)

---------------------------------------------------------------------------
(* The sudoers editor alone: one process calls MakeUserSudoer, one call    *)
(* after the other.                                                        *)

CommentLine == <<"#", NL>>
UnterminatedLine == <<"#">>

\* The /etc/sudoers the editor starts from.
SudoersContents ==
  { <<>>,
    <<CommentLine>>,
    <<CommentLine, UnterminatedLine>>,
    <<CommentLine, EnsureTrailingNewline(RuleLine(UserAab))>> }

SudoersFiles ==
  {[exists |-> FALSE, lines |-> <<>>, mode |-> "0440"]} \cup
  {[exists |-> TRUE, lines |-> c, mode |-> "0440"] : c \in SudoersContents}

CallMakeUserSudoer(p, user) ==
  /\ pc[p] = "idle"
  /\ gh[p].calls < MaxCalls
  /\ pc' = [pc EXCEPT ![p] = "mus_isfile"]
  /\ loc' = [loc EXCEPT ![p] = [InitLoc EXCEPT !.entry = "MakeUserSudoer",
                                               !.user = user]]
  /\ gh' = Rec(p, [gh EXCEPT ![p] = BeginGh(p)])
  /\ tmp' = [tmp EXCEPT ![p] = NoFile]
  /\ UNCHANGED <<sudoers, lockExists, keysVars, accounts>>

InitRest(rec) ==
  /\ accounts = {}
  /\ dirs = {}
  /\ authKeys = [u \in ValidUsers |-> NoFile]
  /\ akOrig = authKeys
  /\ pc = [p \in Procs |-> "idle"]
  /\ loc = [p \in Procs |-> InitLoc]
  /\ tmp = [p \in Procs |-> NoFile]
  /\ ktmp = [p \in Procs |-> NoTempKeys]
  /\ gh = [p \in Procs |-> InitGh(sudoers, rec)]

InitSudo ==
  /\ sudoers \in SudoersFiles
  /\ lockExists \in BOOLEAN
  /\ InitRest("all")

NextSudo ==
  \/ \E user \in ValidUsers : CallMakeUserSudoer(1, user)
  \/ MakeUserSudoer(1)
  \/ Kill(1)

SpecSudo == InitSudo /\ [][NextSudo]_vars


---------------------------------------------------------------------------
(* The keys writer alone: one process calls WriteAuthorizedSshKeysFile on  *)
(* one user's file, one call after the other.                              *)

\* Lines of an authorized_keys file: a line of the user's with and without
\* its newline, the marker line, and a comment that begins with the marker
\* text and goes on.
UserKeyLine == <<"u", NL>>
UserKeyLineOpen == <<"u">>
MarkerLine == Marker \o <<NL>>
MarkerPrefixedLine == Marker \o <<"!", NL>>

KeyFileLines == {UserKeyLine, UserKeyLineOpen, MarkerLine, MarkerPrefixedLine}

RECURSIVE SeqsUpTo(_, _)
\* The sequences over S of length n or less.
SeqsUpTo(S, n) ==
  IF n = 0 THEN {<<>>}
  ELSE LET shorter == SeqsUpTo(S, n - 1)
       IN  shorter \cup {Append(q, x) : q \in shorter, x \in S}

KeyFileContents ==
  {c \in SeqsUpTo(KeyFileLines, MaxLines) : IsFileContent(c)}

\* The keys of the feed: no key ends in a newline.
Key1 == <<"1">>
Key2 == <<"2">>
KeyArgs == {<<>>, <<Key1>>, <<Key1, Key2>>, <<Key2, Key1>>}

CallWriteKeys(p, user, ssh_keys) ==
  /\ pc[p] = "idle"
  /\ gh[p].calls < MaxCalls
  /\ pc' = [pc EXCEPT ![p] = "wk_create"]
  /\ loc' = [loc EXCEPT ![p] = [InitLoc EXCEPT !.entry = "WriteKeys",
                                               !.user = user,
                                               !.ssh_keys = ssh_keys]]
  /\ gh' = Rec(p, [gh EXCEPT ![p] = [BeginGh(p) EXCEPT !.akBefore = authKeys[user]]])
  /\ ktmp' = [ktmp EXCEPT ![p] = NoTempKeys]
  /\ UNCHANGED <<sudoersVars, authKeys, dirs, akOrig, accounts>>

InitKeys ==
  /\ sudoers = [exists |-> FALSE, lines |-> <<>>, mode |-> "0440"]
  /\ lockExists = FALSE
  /\ accounts = {UserAab}
  /\ dirs = {<<UserAab, "home">>, <<UserAab, "ssh">>}
  /\ authKeys \in {[u \in ValidUsers |-> IF u = UserAab THEN f ELSE NoFile] :
                     f \in {NoFile} \cup
                           {[exists |-> TRUE, lines |-> c] :
                              c \in KeyFileContents}}
  /\ akOrig = authKeys
  /\ pc = [p \in Procs |-> "idle"]
  /\ loc = [p \in Procs |-> InitLoc]
  /\ tmp = [p \in Procs |-> NoFile]
  /\ ktmp = [p \in Procs |-> NoTempKeys]
  /\ gh = [p \in Procs |-> InitGh(sudoers, "all")]

NextKeys ==
  \/ \E ssh_keys \in KeyArgs : CallWriteKeys(1, UserAab, ssh_keys)
  \/ WriteAuthorizedSshKeysFile(1)
  \/ Kill(1)

SpecKeys == InitKeys /\ [][NextKeys]_vars


---------------------------------------------------------------------------
(* The daemon: a process that calls CreateUser for the accounts of the     *)
(* feed, one call after the other, and may be killed.                      *)

FeedKeys == {<<Key1>>}

CallCreateUser(p, username, ssh_keys) ==
  /\ pc[p] = "idle"
  /\ gh[p].calls < MaxCalls
  /\ pc' = [pc EXCEPT ![p] = "cu_validate"]
  /\ loc' = [loc EXCEPT ![p] = [InitLoc EXCEPT !.entry = "CreateUser",
                                               !.user = username,
                                               !.ssh_keys = ssh_keys]]
  /\ gh' = Rec(p, [gh EXCEPT ![p] = BeginGh(p)])
  /\ tmp' = [tmp EXCEPT ![p] = NoFile]
  /\ ktmp' = [ktmp EXCEPT ![p] = NoTempKeys]
  /\ UNCHANGED <<sudoers, lockExists, authKeys, dirs, akOrig, accounts>>

Init ==
  /\ sudoers \in {f \in SudoersFiles : f.lines \in {<<>>, <<CommentLine>>}}
  /\ lockExists \in BOOLEAN
  /\ InitRest("all")

Next ==
  \/ \E username \in FeedUsers, ssh_keys \in FeedKeys :
       CallCreateUser(1, username, ssh_keys)
  \/ CreateUser(1)
  \/ MakeUserSudoer(1)
  \/ AuthorizeSshKeys(1)
  \/ WriteAuthorizedSshKeysFile(1)
  \/ Kill(1)

Spec == Init /\ [][Next]_vars

---------------------------------------------------------------------------
(* Several processes that call MakeUserSudoer at the same time, and may be *)
(* killed.                                                                 *)

InitRace ==
  /\ sudoers = [exists |-> TRUE, lines |-> <<CommentLine>>, mode |-> "0440"]
  /\ lockExists = FALSE
  /\ InitRest("lock")

NextRace ==
  \E p \in Procs :
    \/ \E user \in ValidUsers : CallMakeUserSudoer(p, user)
    \/ MakeUserSudoer(p)
    \/ Kill(p)

SpecRace == InitRace /\ [][NextRace]_vars

---------------------------------------------------------------------------
(* The daemon's runs without end: the accounts exist, so each run of        *)
(* CreateUser for one of them comes to the MakeUserSudoer call of line 94.  *)
(* Each process takes the accounts in turn, run after run; no process is    *)
(* killed, no operation fails and the policy checker accepts.               *)

InitRetry ==
  /\ sudoers = [exists |-> TRUE, lines |-> <<CommentLine>>, mode |-> "0440"]
  /\ lockExists = FALSE
  /\ InitRest("mishap")

\* The next run of process p: MakeUserSudoer for the account after the one
\* it did last.
Retry(p) ==
  /\ pc[p] = "idle"
  /\ \E user \in ValidUsers :
       /\ user # loc[p].user
       /\ loc' = [loc EXCEPT ![p] = [InitLoc EXCEPT !.entry = "MakeUserSudoer",
                                                    !.user = user]]
  /\ pc' = [pc EXCEPT ![p] = "mus_isfile"]
  /\ gh' = Rec(p, [gh EXCEPT ![p] = BeginGh(p)])
  /\ tmp' = [tmp EXCEPT ![p] = NoFile]
  /\ UNCHANGED <<sudoers, lockExists, keysVars, accounts>>

\* A step of MakeUserSudoer in which nothing fails.
Unhindered(p) == MakeUserSudoer(p) /\ ~gh'[p].mishap

NextRetry == \E p \in Procs : Retry(p) \/ Unhindered(p)

\* Every process goes on with the call it is in and begins its next run.
FairRetry ==
  \A p \in Procs : WF_vars(Retry(p)) /\ WF_vars(Unhindered(p))

SpecRetry == InitRetry /\ [][NextRetry]_vars /\ FairRetry

---------------------------------------------------------------------------
(* Properties of the sudoers editor. *)

\* How many of the lines are this line.
Count(line, lines) == Len(SelectSeq(lines, LAMBDA l : l = line))

\* The call of process p has begun (and may be over, or cut short by a kill).
Called(p) == gh[p].calls > 0

\* C1: during and after a MakeUserSudoer call, killed or not, the live
\* /etc/sudoers holds its content of before the call or the whole candidate
\* (the old lines and the new rule), never less.
C1_LiveFileOldOrCandidate ==
  \A p \in Procs :
    Called(p) =>
      \/ sudoers.lines = gh[p].before.lines
      \/ sudoers.lines = Candidate(loc[p].user, gh[p].before.lines)

\* C2: in a call whose candidate the policy checker calls invalid, the live
\* file is as it was before the call in every state up to the verdict and
\* from it on, the call does not write it, and the call ends by a normal
\* return.
C2_InvalidCandidateLeavesFile ==
  \A p \in Procs :
    /\ (Called(p) /\ gh[p].verdict \in {"none", "invalid"}) =>
         /\ sudoers.lines = gh[p].before.lines
         /\ ~gh[p].wrote
    /\ gh[p].verdict = "invalid" =>
         /\ gh[p].outcome # "raised"
         /\ pc[p] = "idle" => gh[p].outcome = "returned"

C2_Witness ==
  \E p \in Procs :
    /\ gh[p].verdict = "invalid"
    /\ pc[p] = "idle"
    /\ gh[p].outcome = "returned"
    /\ gh[p].before.lines # Candidate(loc[p].user, gh[p].before.lines)

\* C3: a grant attempt that finds the lock marker in place when it tries to
\* create it writes nothing to /etc/sudoers (content and mode as before the
\* call), returns without raising, and leaves the marker where it is.
C3_BusyLockNoWrite ==
  \A p \in Procs :
    gh[p].lockBusy =>
      /\ sudoers = gh[p].before
      /\ ~gh[p].wrote
      /\ "sudoers" \notin gh[p].did
      /\ lockExists
      /\ pc[p] = "idle"
      /\ gh[p].outcome = "returned"

C3_Witness ==
  \E p \in Procs :
    /\ gh[p].lockBusy
    /\ pc[p] = "idle"
    /\ ~IsUserSudoerInLines(loc[p].user, sudoers.lines)

\* C4: two MakeUserSudoer calls in a row for one user name, with the file
\* there, the lock free, the checker accepting and no I/O error, leave
\* exactly one rule line of that user in the file, and the second call
\* neither takes the lock nor writes the file.
C4_TwoCallsOneRule ==
  \A p \in Procs :
    ( /\ pc[p] = "idle"
      /\ gh[p].calls >= 2
      /\ gh[p].prev.user = loc[p].user
      /\ gh[p].prev.clean
      /\ gh[p].clean ) =>
      /\ Count(EnsureTrailingNewline(RuleLine(loc[p].user)), sudoers.lines) = 1
      /\ ~gh[p].acquired
      /\ ~gh[p].wrote

\* C6: a call that has created its temporary file has removed it when it
\* returns, whatever happened in between.
C6_TempFileRemoved ==
  \A p \in Procs :
    (pc[p] = "idle" /\ gh[p].tmpCreated) => ~tmp[p].exists


---------------------------------------------------------------------------
(* Properties of the sudoers editor under concurrent calls. *)

\* The places of MakeUserSudoer between the creation of the lock marker and
\* the end of UnlockSudoers.
UnderLock ==
  {"mus_read_locked", "mus_mkstemp", "mus_write_tmp", "mus_validate",
   "mus_chmod", "mus_open_w", "mus_writelines", "mus_fchmod_w",
   "mus_fchmod_r", "mus_unlink_tmp", "mus_unlock"}

\* Control leaves the MakeUserSudoer call of p that holds the lock (the
\* process is not killed).
LeavesLockedCall(p) ==
  /\ pc[p] \in UnderLock
  /\ pc'[p] \notin UnderLock \cup {"killed"}

\* C5 as claimed: whenever control leaves a call that took the lock, the
\* marker is gone.
C5_MarkerGoneOnLeave ==
  [][\A p \in Procs : LeavesLockedCall(p) => ~lockExists']_vars

\* C5: whenever control leaves a call that took the lock, the marker is gone,
\* unless the unlink of UnlockSudoers itself failed with an error other than
\* ENOENT (which is logged).
C5_MarkerGoneUnlessUnlinkFails ==
  [][\A p \in Procs :
       LeavesLockedCall(p) => (~lockExists' \/ gh'[p].unlockFailed)]_vars

C5_Witness ==
  \E p \in Procs :
    /\ pc[p] = "idle"
    /\ gh[p].acquired
    /\ ~gh[p].unlockFailed
    /\ ~lockExists
    /\ loc[p].sudoer_lines = Candidate(loc[p].user, <<CommentLine>>)
    /\ sudoers.lines # loc[p].sudoer_lines

---------------------------------------------------------------------------
(* Properties of the keys writer. *)

\* A line that is the marker comment and nothing more.
IsMarkerLine(line) == EnsureTrailingNewline(line) = MarkerLine

\* The managed pairs of a file: each marker line that has a line after it,
\* and that line.
ManagedIxs(lines) ==
  LET marked == {i \in 1..(Len(lines) - 1) : IsMarkerLine(lines[i])}
  IN  marked \cup {i + 1 : i \in marked}

\* The unmanaged lines of a file, in their order.
Unmanaged(lines) == LinesNotAt(lines, ManagedIxs(lines), 1)

\* A marker line and the key, for each key in its order.
ManagedPairs(ssh_keys) ==
  Concat([i \in 1..Len(ssh_keys) |->
            <<MarkerLine, EnsureTrailingNewline(ssh_keys[i])>>])

RECURSIVE IsSubseq(_, _)
\* The lines of s are found in t, in the order of s.
IsSubseq(s, t) ==
  IF s = <<>> THEN TRUE
  ELSE IF t = <<>> THEN FALSE
  ELSE IF Head(s) = Head(t) THEN IsSubseq(Tail(s), Tail(t))
  ELSE IsSubseq(s, Tail(t))

\* C7: a finished WriteAuthorizedSshKeysFile leaves the file with the
\* unmanaged lines of the old file, in their order (each ending in one
\* newline), then a marker line and key for each new key in its order, and
\* nothing of the old managed pairs.
C7_RoundTrip ==
  \A p \in Procs :
    (loc[p].entry = "WriteKeys" /\ gh[p].moved) =>
      authKeys[loc[p].user].lines =
        Normalized(Unmanaged(gh[p].akBefore.lines))
          \o ManagedPairs(loc[p].ssh_keys)

\* C8: after any number of runs on a file, every line that was unmanaged in
\* the file as it first was, an unpaired last marker line among them, is
\* still in the file, in the original order.
C8_UnmanagedKept ==
  \A u \in ValidUsers :
    IsSubseq(Normalized(Unmanaged(akOrig[u].lines)),
             Normalized(authKeys[u].lines))

\* C9: until the move of line 363 the authorized keys file is what it was
\* before the call (or still absent), also after a failure or a kill with
\* the temporary file written; from the move on it holds the whole new
\* content.
C9_AtomicReplace ==
  \A p \in Procs :
    (loc[p].entry = "WriteKeys" /\ Called(p)) =>
      IF gh[p].moved
        THEN authKeys[loc[p].user] =
               [exists |-> TRUE,
                lines |-> WrittenUserLines(UserLines(gh[p].akBefore.lines))
                            \o WrittenKeyLines(loc[p].ssh_keys)]
        ELSE authKeys[loc[p].user] = gh[p].akBefore

C9_Witness ==
  \E p \in Procs :
    /\ loc[p].entry = "WriteKeys"
    /\ pc[p] \in {"idle", "killed"}
    /\ ~gh[p].moved
    /\ ktmp[p].exists
    /\ loc[p].user_lines # <<>>
    /\ ktmp[p].lines = WrittenUserLines(loc[p].user_lines)
                         \o WrittenKeyLines(loc[p].ssh_keys)
    /\ ktmp[p].lines # gh[p].akBefore.lines
    /\ authKeys[loc[p].user] = gh[p].akBefore


---------------------------------------------------------------------------
(* Properties of CreateUser. *)

\* A name with a character outside [A-Za-z0-9._-], or that starts with "-".
NameRejected(username) ==
  \/ \E i \in 1..Len(username) : username[i] \notin VALID_USERNAME_CHARS
  \/ Len(username) > 0 /\ username[1] = "-"

\* C10: CreateUser with such a name has no side effect: no account is asked
\* for, /etc/sudoers and the lock marker are as they were, and no directory,
\* temporary file or authorized keys file is made or changed.
C10_RejectedNameNoEffect ==
  \A p \in Procs :
    (loc[p].entry = "CreateUser" /\ NameRejected(loc[p].user)) =>
      /\ gh[p].did = {}
      /\ Disk = gh[p].start
      /\ ~tmp[p].exists /\ ~ktmp[p].exists
      /\ pc[p] \in {"cu_validate", "idle", "killed"}
      /\ gh[p].outcome # "raised"

C10_Witness ==
  \E p \in Procs :
    /\ loc[p].entry = "CreateUser"
    /\ NameRejected(loc[p].user)
    /\ pc[p] = "idle"
    /\ gh[p].outcome = "returned"

\* The places of MakeUserSudoer, and those of AuthorizeSshKeys with
\* WriteAuthorizedSshKeysFile.
SudoerPlaces == {"mus_isfile", "mus_read", "mus_lock"} \cup UnderLock
KeysPlaces ==
  {"ask_isdir", "ask_ensure_home", "ask_mkdir_ssh", "wk_create", "wk_read",
   "wk_fchmod", "wk_fchown", "wk_write_user", "wk_write_keys", "wk_move"}

\* C11: CreateUser runs MakeUserSudoer and AuthorizeSshKeys only with the
\* account there; while the account is absent (UserAdd failed, or was not
\* yet tried) /etc/sudoers, the lock marker, the directories and the
\* authorized keys files are as at the call; and AuthorizeSshKeys is begun
\* only out of MakeUserSudoer, which is not gone back to.
C11_OnlyForExistingAccount ==
  /\ [](\A p \in Procs :
         (loc[p].entry = "CreateUser" /\ Called(p)) =>
           /\ pc[p] \in SudoerPlaces \cup KeysPlaces =>
                loc[p].user \in accounts
           /\ loc[p].user \notin accounts =>
                /\ gh[p].did \subseteq {"useradd"}
                /\ ~gh[p].acquired /\ ~gh[p].wrote /\ ~gh[p].moved
                /\ sudoers = gh[p].start.sudoers
                /\ lockExists = gh[p].start.lockExists
                /\ dirs = gh[p].start.dirs
                /\ authKeys = gh[p].start.authKeys
                /\ ~tmp[p].exists /\ ~ktmp[p].exists)
  /\ [][\A p \in Procs :
          loc[p].entry = "CreateUser" =>
            /\ (pc[p] \notin KeysPlaces /\ pc'[p] \in KeysPlaces) =>
                 pc[p] \in SudoerPlaces
            /\ pc[p] \in KeysPlaces => pc'[p] \notin SudoerPlaces]_vars

C11_Witness ==
  \E p \in Procs :
    /\ loc[p].entry = "CreateUser"
    /\ pc[p] = "idle"
    /\ gh[p].outcome = "returned"
    /\ "useradd" \in gh[p].did
    /\ loc[p].user \notin accounts

---------------------------------------------------------------------------
(* More properties of the keys writer. *)

\* C12: the temporary file holds no line before its mode is 0600 and its
\* owner the user; and when the fchmod or the fchown has failed, nothing is
\* written to it and the authorized keys file is not replaced.
C12_PermsBeforeContent ==
  \A p \in Procs :
    (loc[p].entry = "WriteKeys" /\ Called(p)) =>
      /\ (ktmp[p].lines # <<>> \/ pc[p] \in {"wk_write_keys", "wk_move"}
             \/ gh[p].moved) =>
           (ktmp[p].mode = "0600" /\ ktmp[p].owner = "user")
      /\ (ktmp[p].exists /\ pc[p] = "idle"
             /\ (ktmp[p].mode # "0600" \/ ktmp[p].owner # "user")) =>
           /\ ktmp[p].lines = <<>>
           /\ ~gh[p].moved
           /\ authKeys[loc[p].user] = gh[p].akBefore

C12_Witness ==
  \E p \in Procs :
    /\ loc[p].entry = "WriteKeys"
    /\ pc[p] = "idle"
    /\ gh[p].outcome = "raised"
    /\ ktmp[p].exists
    /\ ktmp[p].mode = "0600"
    /\ ktmp[p].owner # "user"
    /\ loc[p].user_lines # <<>>
    /\ loc[p].ssh_keys # <<>>
    /\ ktmp[p].lines = <<>>

---------------------------------------------------------------------------
(* More properties of the sudoers editor under concurrent calls. *)

\* The processes between a successful LockSudoers and the end of their
\* UnlockSudoers, and the places where /etc/sudoers is written.
Holders == {p \in Procs : pc[p] \in UnderLock}
WritePlaces ==
  {"mus_chmod", "mus_open_w", "mus_writelines", "mus_fchmod_w",
   "mus_fchmod_r"}

\* C13: at most one process at a time is between taking the lock and giving
\* it back, the marker is there all that time, and no two processes are at
\* the writing of /etc/sudoers together.
C13_OneHolder ==
  /\ Cardinality(Holders) <= 1
  /\ Holders # {} => lockExists
  /\ \A p, q \in Procs :
       (pc[p] \in WritePlaces /\ pc[q] \in WritePlaces) => p = q

C13_Witness ==
  \E p, q \in Procs :
    /\ p # q
    /\ pc[p] = "mus_writelines"
    /\ pc[q] = "mus_lock"
    /\ loc[p].user # loc[q].user

\* No process has been killed.
NoneKilled == \A p \in Procs : pc[p] # "killed"

\* The rule line of a user as it stands in the file.
WrittenRule(user) == EnsureTrailingNewline(RuleLine(user))

\* C14: with no process killed, /etc/sudoers never holds more than one rule
\* line of a user, however the calls of the processes interleave.
C14_AtMostOneRule ==
  NoneKilled =>
    \A user \in ValidUsers : Count(WrittenRule(user), sudoers.lines) <= 1

C14_Witness ==
  \E p, q \in Procs :
    /\ p # q
    /\ loc[p].user = loc[q].user
    /\ pc[p] = "idle" /\ pc[q] = "idle"
    /\ gh[p].acquired /\ gh[q].acquired
    /\ sudoers.lines = <<CommentLine, WrittenRule(loc[p].user)>>

\* The write of process q to /etc/sudoers goes through in this step.
CompletesWrite(q) ==
  /\ pc[q] = "mus_writelines"
  /\ pc'[q] = "mus_fchmod_w"

\* C15: with no process killed, when the write of a process goes through,
\* the file holds every line of the last write of each other process that
\* went through before, in its order.
C15_NoLostUpdate ==
  [][\A q \in Procs :
       (NoneKilled /\ CompletesWrite(q)) =>
         \A p \in Procs \ {q} :
           IsSubseq(gh[p].landed, sudoers'.lines)]_vars

---------------------------------------------------------------------------
(* More properties of the sudoers editor. *)

\* The line begins with the user name, letter for letter, and whitespace
\* comes after it.
IsLiteralEntry(user, line) ==
  /\ Len(line) > Len(user)
  /\ SubSeq(line, 1, Len(user)) = user
  /\ line[Len(user) + 1] \in Whitespace

HasLiteralEntry(user, lines) ==
  \E i \in 1..Len(lines) : IsLiteralEntry(user, lines[i])

\* The places of MakeUserSudoer that are reached only with the membership
\* tests passed.
PastTests ==
  {"mus_mkstemp", "mus_write_tmp", "mus_validate", "mus_chmod",
   "mus_open_w", "mus_writelines", "mus_fchmod_w", "mus_fchmod_r"}

\* C16: a grant is passed over as already made exactly when a line of
\* /etc/sudoers begins with the user name itself and whitespace: a call that
\* was passed over had such a line in the file, and a call that went on to
\* build its candidate had none.
C16_SkippedIffLiteralEntry ==
  \A p \in Procs :
    (loc[p].entry = "MakeUserSudoer" /\ Called(p)) =>
      /\ gh[p].skipped => HasLiteralEntry(loc[p].user, gh[p].before.lines)
      /\ pc[p] \in PastTests =>
           ~HasLiteralEntry(loc[p].user, gh[p].before.lines)

---------------------------------------------------------------------------
(* The marker test of the keys writer. *)

\* The places of WriteAuthorizedSshKeysFile after user_lines is computed.
AfterFilter ==
  {"wk_fchmod", "wk_fchown", "wk_write_user", "wk_write_keys", "wk_move"}

\* C17: only a line that is the marker comment and nothing more begins a
\* managed pair: user_lines is the lines of the file outside the pairs of
\* such lines, so a line that begins with the marker text and goes on, and
\* the line after it, are among them and are in the file that is written.
C17_ExactMarkerOnly ==
  \A p \in Procs :
    (loc[p].entry = "WriteKeys" /\ Called(p)) =>
      /\ pc[p] \in AfterFilter =>
           loc[p].user_lines = Unmanaged(gh[p].akBefore.lines)
      /\ gh[p].moved =>
           \A i \in 1..Len(gh[p].akBefore.lines) :
             i \notin ManagedIxs(gh[p].akBefore.lines) =>
               Count(EnsureTrailingNewline(gh[p].akBefore.lines[i]),
                     authKeys[loc[p].user].lines) >= 1

---------------------------------------------------------------------------
(* The marker of a killed process. *)

\* A process was killed between its LockSudoers and the end of its
\* UnlockSudoers.
KilledUnderLock(p) == pc[p] = "killed" /\ gh[p].acquired

\* C18: once a process is killed with the lock taken, the marker stays for
\* good, no process gets past LockSudoers, and /etc/sudoers is written no
\* more: a user without a rule line gets none.
C18_StaleMarkerBlocks ==
  /\ []((\E p \in Procs : KilledUnderLock(p)) =>
          (lockExists /\ Holders = {}))
  /\ [][(\E p \in Procs : KilledUnderLock(p)) =>
          (lockExists' /\ sudoers' = sudoers)]_vars

C18_Witness ==
  \E p, q \in Procs :
    /\ KilledUnderLock(p)
    /\ p # q
    /\ pc[q] = "idle"
    /\ gh[q].calls = MaxCalls
    /\ ~gh[q].acquired
    /\ ~IsUserSudoerInLines(loc[q].user, sudoers.lines)
    /\ lockExists

---------------------------------------------------------------------------
(* The runs without end. *)

\* C19: with the runs of the processes going on for ever, nothing failing
\* and no process killed, every account comes to have its rule line in
\* /etc/sudoers.
C19_EveryAccountGranted ==
  \A user \in ValidUsers :
    <>(Count(WrittenRule(user), sudoers.lines) >= 1)

---------------------------------------------------------------------------
(* More properties of CreateUser. *)

\* C20: in CreateUser, whatever fails in MakeUserSudoer (the first read of
\* /etc/sudoers included), control that leaves MakeUserSudoer goes on to
\* AuthorizeSshKeys, unless the process is killed.
C20_SudoersFailureKeepsKeys ==
  [][\A p \in Procs :
       ( /\ loc[p].entry = "CreateUser"
         /\ pc[p] \in SudoerPlaces
         /\ pc'[p] \notin SudoerPlaces \cup {"killed"} ) =>
         pc'[p] = "ask_isdir"]_vars

=============================================================================
